---- MODULE Spec2Model ----
(***************************************************************************)
(* EduPath: allocation of students to university courses (edupath.py) and  *)
(* the admin HTTP endpoints around it (api.py).                            *)
(*                                                                         *)
(* Python values that reach str() are tagged: StrVal(s) is a Python str,   *)
(* IntVal(n) a Python int.  A DataFrame is a sequence of rows, a row a        *)
(* function from column names to values.  A dict is a function; a catalog  *)
(* course is a record that may or may not have the field min_score.        *)
(***************************************************************************)
EXTENDS Integers, Sequences, FiniteSets, TLC

VARIABLES
    universities,   \* the catalog document read from UNI_JSON
    overrides,      \* api.overrides: student id -> [university, course]
    student_row,    \* SpecScore: the roster row whose score is computed
    total_score,    \* the score handed to best_fit_allocation
    fit,            \* SpecFit: what best_fit_allocation returned or raised
    roster,         \* SpecAllocate: the frame pd.read_excel returns
    df,             \* SpecAllocate: the frame allocate is filling in
    idx,            \* SpecAllocate: position of the row loop
    runs,           \* SpecAllocate: [frame |-> ...] or KeyError of each finished run
    uploads,        \* UPLOAD_DIR: files in order of ctime
    student_pdfs,   \* PDF_DIR/<student_id>.pdf: student id -> report content
    full_pdf,       \* PDF_DIR/allocations_full.pdf: content, or NoFile
    request,        \* the request handled last
    response,       \* the response to it
    pc              \* position of the process of the specification at hand

vars == <<universities, overrides, student_row, total_score, fit, roster, df,
          idx, runs, uploads, student_pdfs, full_pdf, request, response, pc>>

----------------------------------------------------------------------------
(* Bounds of the model. *)

\* Largest number of courses in a catalog, over all its universities.
MaxCourses == 3
\* Largest min_score of a catalog course.
MaxMin == 2
\* Largest number of rows of a roster.
MaxRows == 2
\* Largest number of subject columns of a roster row (SpecScore).
MaxSubjects == 2
\* Largest number of consecutive allocation runs on the same inputs.
MaxRuns == 2

----------------------------------------------------------------------------
(* Python values and dicts. *)

StrVal(s) == [t |-> "str", v |-> s]
IntVal(n) == [t |-> "int", v |-> n]

Digit(d) ==
    CASE d = 0 -> "0" [] d = 1 -> "1" [] d = 2 -> "2" [] d = 3 -> "3"
      [] d = 4 -> "4" [] d = 5 -> "5" [] d = 6 -> "6" [] d = 7 -> "7"
      [] d = 8 -> "8" [] d = 9 -> "9"

\* str(n) of an int n >= 0: its decimal digits.
RECURSIVE IntStr(_)
IntStr(n) == IF n < 10 THEN Digit(n) ELSE IntStr(n \div 10) \o Digit(n % 10)

\* str(v): a str is itself, an int is formatted.
PyStr(v) == IF v.t = "int" THEN IntStr(v.v) ELSE v.v

\* d.get(k, default)
DictGet(d, k, default) == IF k \in DOMAIN d THEN d[k] ELSE default

\* d[k] = v on a dict: the key is added or its value replaced.
DictSet(d, k, v) == [x \in DOMAIN d \cup {k} |-> IF x = k THEN v ELSE d[x]]

EmptyDict == [x \in {} |-> x]

RECURSIVE SumOver(_, _)
SumOver(S, f) ==
    IF S = {} THEN 0
    ELSE LET x == CHOOSE y \in S : TRUE IN f[x] + SumOver(S \ {x}, f)

----------------------------------------------------------------------------
(* edupath.py: score calculation. *)

GRADE_TO_SCORE == [A |-> 5, B |-> 4, C |-> 3, D |-> 2, E |-> 1, F |-> 0]

ResultColumns == {"Allocated University", "Allocated Course", "Reasoning"}

\* df["Allocated University"] = "" etc.: the three result columns are added
\* to (or blanked in) every row before the loop, so the row iterrows yields
\* carries them with the value "".
WithResultColumns(row) ==
    [c \in DOMAIN row \cup ResultColumns |->
        IF c \in ResultColumns THEN StrVal("") ELSE row[c]]

\* TotalScore with only "Student ID" left out of the sum.
TotalScoreWithName(row) ==
    SumOver(DOMAIN row \ {"Student ID"},
            [sub \in DOMAIN row |-> DictGet(GRADE_TO_SCORE, PyStr(row[sub]), 0)])

\* sum(GRADE_TO_SCORE.get(str(row[sub]), 0) for sub in row.index
\*     if sub not in ["Student ID", "Name"])
TotalScore(row) ==
    SumOver(DOMAIN row \ {"Student ID", "Name"},
            [sub \in DOMAIN row |-> DictGet(GRADE_TO_SCORE, PyStr(row[sub]), 0)])

----------------------------------------------------------------------------
(* edupath.py: best_fit_allocation. *)

KeyError == [raised |-> "KeyError"]
Raised(r) == "raised" \in DOMAIN r

\* The (university name, course) pairs in the order the nested loops
\* "for uni in universities: for course in uni['courses']" visit them.
RECURSIVE CatalogOrder(_)
CatalogOrder(unis) ==
    IF unis = << >> THEN << >>
    ELSE [i \in 1..Len(Head(unis).courses) |->
              [uni_name |-> Head(unis).name, course |-> Head(unis).courses[i]]]
         \o CatalogOrder(Tail(unis))

\* next((c["min_score"] for u in universities for c in u["courses"]
\*       if c["name"] == best_course), 0):
\* the min_score of the first course in the catalog with that NAME, whatever
\* its university; c["min_score"] raises KeyError when that course has none.
BestMinScore(unis, best_course) ==
    LET named == SelectSeq(CatalogOrder(unis),
                           LAMBDA p : p.course.name = best_course)
    IN  IF named = << >> THEN [value |-> 0]
        ELSE IF "min_score" \in DOMAIN Head(named).course
             THEN [value |-> Head(named).course.min_score]
             ELSE KeyError

Reasoning(score, min_score) ==
    "Total score " \o IntStr(score) \o " meets minimum " \o IntStr(min_score)

\* FitStep without the test total_score >= min_score.
FitStep_nothreshold(unis, score, st, p) ==
    LET min_score == DictGet(p.course, "min_score", 0)
        taken == [best_uni |-> p.uni_name, best_course |-> p.course.name,
                  reasoning |-> Reasoning(score, min_score)]
    IN  IF Raised(st) THEN st
        ELSE IF st.best_course = "" THEN taken
        ELSE LET known == BestMinScore(unis, st.best_course)
             IN  IF Raised(known) THEN KeyError
                 ELSE IF min_score > known.value THEN taken ELSE st

\* One iteration of the inner loop on the running best `st`.
FitStep(unis, score, st, p) ==
    LET min_score == DictGet(p.course, "min_score", 0)
        taken == [best_uni |-> p.uni_name, best_course |-> p.course.name,
                  reasoning |-> Reasoning(score, min_score)]
    IN  IF Raised(st) \/ ~ (score >= min_score) THEN st
        ELSE IF st.best_course = "" THEN taken
        ELSE LET known == BestMinScore(unis, st.best_course)
             IN  IF Raised(known) THEN KeyError
                 ELSE IF min_score > known.value THEN taken ELSE st

RECURSIVE FitLoop(_, _, _, _)
FitLoop(unis, score, st, todo) ==
    IF todo = << >> THEN st
    ELSE FitLoop(unis, score, FitStep(unis, score, st, Head(todo)), Tail(todo))

NoFit ==
    [best_uni |-> "", best_course |-> "", reasoning |-> "No suitable course found"]

\* What best_fit_allocation returns, or KeyError when it raises.  The row
\* parameter is not read by the code.
best_fit_allocation(row, unis, score) ==
    FitLoop(unis, score, NoFit, CatalogOrder(unis))

----------------------------------------------------------------------------
(* edupath.py: allocate. *)

\* The frame after the three result columns were set to "" (lines 33-35).
WithResultFrame(frame) == [i \in DOMAIN frame |-> WithResultColumns(frame[i])]

\* df.at[idx, ...] = ...: the three result cells of one row.
SetResult(row, uni, course, reason) ==
    [c \in DOMAIN row |->
        CASE c = "Allocated University" -> StrVal(uni)
          [] c = "Allocated Course" -> StrVal(course)
          [] c = "Reasoning" -> StrVal(reason)
          [] OTHER -> row[c]]

\* AllocateRowBody without the "continue" of the override branch: the best
\* fit is computed for every row and overwrites the override.
AllocateRowBody_nocontinue(row, unis, ovr) ==
    LET found == best_fit_allocation(row, unis, TotalScore(row))
    IN  IF Raised(found) THEN KeyError
        ELSE SetResult(row, found.best_uni, found.best_course, found.reasoning)

\* The body of the row loop on the row iterrows yields: the row with its
\* result cells filled in, or KeyError when best_fit_allocation raises.
AllocateRowBody(row, unis, ovr) ==
    LET student_id == PyStr(row["Student ID"])
    IN  IF ovr # EmptyDict /\ student_id \in DOMAIN ovr
        THEN SetResult(row, ovr[student_id].university, ovr[student_id].course,
                       "Manual override applied")
        ELSE LET found == best_fit_allocation(row, unis, TotalScore(row))
             IN  IF Raised(found) THEN KeyError
                 ELSE SetResult(row, found.best_uni, found.best_course,
                                found.reasoning)

RECURSIVE AllocateLoop(_, _, _, _)
AllocateLoop(frame, i, unis, ovr) ==
    IF i > Len(frame) THEN [frame |-> frame]
    ELSE LET out == AllocateRowBody(frame[i], unis, ovr)
         IN  IF Raised(out) THEN KeyError
             ELSE AllocateLoop([frame EXCEPT ![i] = out], i + 1, unis, ovr)

\* allocate(excel_path, uni_json_path, overrides) on the frame read from the
\* Excel file and the catalog read from the JSON file: [frame |-> the frame
\* it returns], or KeyError.
allocate(frame, unis, ovr) == AllocateLoop(WithResultFrame(frame), 1, unis, ovr)

----------------------------------------------------------------------------
(* Input domains. *)

CourseNames == {"X", "Y"}

\* A course entry of the catalog document: min_score may be absent.
Courses ==
    {[name |-> n] : n \in CourseNames}
    \cup {[name |-> n, min_score |-> m] : n \in CourseNames, m \in 0..MaxMin}

SeqsUpTo(S, n) == UNION {[1..k -> S] : k \in 0..n}

University(uni_name, courses) == [name |-> uni_name, courses |-> courses]

Course(course_name, min_score) == [name |-> course_name, min_score |-> min_score]

\* The catalogs that hold the courses cs in this order: in one university,
\* or split between two at any place; without courses, also the catalog of
\* no university.
CatalogsOf(cs) ==
    {<<University("UniA", cs)>>}
    \cup {<<University("UniA", SubSeq(cs, 1, k)),
            University("UniB", SubSeq(cs, k + 1, Len(cs)))>> : k \in 0..Len(cs)}
    \cup (IF cs = << >> THEN {<< >>} ELSE {})

Scores == 0..(MaxMin + 1)

NoFile == [missing |-> TRUE]
NoRequest == [op |-> "none"]
NoResponse == [status |-> 0]

\* The state of the variables a specification does not use.
IdleApi ==
    /\ uploads = << >>
    /\ student_pdfs = EmptyDict
    /\ full_pdf = NoFile
    /\ request = NoRequest
    /\ response = NoResponse

IdleAllocate ==
    /\ roster = << >>
    /\ df = << >>
    /\ idx = 0
    /\ runs = << >>

----------------------------------------------------------------------------
(* SpecFit: best_fit_allocation applied to every catalog and score. *)

InitFit ==
    /\ \E cs \in SeqsUpTo(Courses, MaxCourses) : universities \in CatalogsOf(cs)
    /\ total_score \in Scores
    /\ overrides = EmptyDict
    /\ student_row = EmptyDict
    /\ fit = [pending |-> TRUE]
    /\ pc = "input"
    /\ IdleAllocate
    /\ IdleApi

CallBestFit ==
    /\ pc = "input"
    /\ fit' = best_fit_allocation(student_row, universities, total_score)
    /\ pc' = "done"
    /\ UNCHANGED <<universities, overrides, student_row, total_score, roster,
                   df, idx, runs, uploads, student_pdfs, full_pdf, request,
                   response>>

NextFit == CallBestFit

SpecFit == InitFit /\ [][NextFit]_vars

----------------------------------------------------------------------------
(* Claims about best_fit_allocation, checked under SpecFit. *)

\* The minimum score a course requires: its min_score, 0 when it has none.
MinScoreOf(course) == IF "min_score" \in DOMAIN course THEN course.min_score ELSE 0

\* Positions, in catalog iteration order, of the courses a score qualifies for.
Candidates(unis, score) ==
    {i \in DOMAIN CatalogOrder(unis) :
        MinScoreOf(CatalogOrder(unis)[i].course) <= score}

\* The largest minimum score among the candidates (there is at least one).
MaxCandidateMin(unis, score) ==
    LET mins == {MinScoreOf(CatalogOrder(unis)[i].course) :
                    i \in Candidates(unis, score)}
    IN  CHOOSE m \in mins : \A n \in mins : n <= m

\* The candidates with the largest minimum.
Tightest(unis, score) ==
    {i \in Candidates(unis, score) :
        MinScoreOf(CatalogOrder(unis)[i].course) = MaxCandidateMin(unis, score)}

\* The first of them in catalog iteration order.
FirstTightest(unis, score) ==
    CatalogOrder(unis)[CHOOSE i \in Tightest(unis, score) :
                           \A j \in Tightest(unis, score) : i <= j]

EveryCourseHasMin(unis) ==
    \A i \in DOMAIN CatalogOrder(unis) :
        "min_score" \in DOMAIN CatalogOrder(unis)[i].course

\* No university lists two courses of the same name (courses of different
\* universities may share one).
DistinctWithinUniversity(unis) ==
    \A u \in DOMAIN unis : \A i, j \in DOMAIN unis[u].courses :
        unis[u].courses[i].name = unis[u].courses[j].name => i = j

WellFormed(unis) == EveryCourseHasMin(unis) /\ DistinctWithinUniversity(unis)

\* C2: whenever at least one course has minScore <= score, the course
\* best_fit_allocation returns has the largest minScore among the courses with
\* minScore <= score (stated for the catalogs in which every course carries a
\* min_score and no university repeats a course name; the minimum of the
\* returned course is the one its reasoning names).
C2_SelectedIsTightest ==
    (pc = "done" /\ WellFormed(universities)
        /\ Candidates(universities, total_score) # {})
    => /\ ~ Raised(fit)
       /\ fit.reasoning
            = "Total score " \o IntStr(total_score) \o " meets minimum "
                \o IntStr(MaxCandidateMin(universities, total_score))

\* C3: when the score is below the minScore of every course, or the catalog
\* has no universities or no courses, the result is exactly
\* ("", "", "No suitable course found") and nothing is raised.
C3_NoCandidateNoFit ==
    (pc = "done" /\ Candidates(universities, total_score) = {})
    => fit = [best_uni |-> "", best_course |-> "",
              reasoning |-> "No suitable course found"]

\* C3 witness: a catalog with courses, all of them above the score, and the
\* unallocated result returned.
C3_Witness ==
    /\ pc = "done"
    /\ Len(universities) = 2
    /\ Len(CatalogOrder(universities)) >= 2
    /\ Candidates(universities, total_score) = {}
    /\ total_score > 0
    /\ fit.best_course = "" /\ fit.reasoning = "No suitable course found"

\* C5: a course without min_score counts as minimum 0, so with such a course
\* in the catalog every score has a candidate and best_fit_allocation returns
\* a course without raising (stated for the catalogs in which no university
\* repeats a course name).
C5_MissingMinScoreCompletes ==
    (pc = "done" /\ ~ EveryCourseHasMin(universities)
        /\ DistinctWithinUniversity(universities))
    => /\ ~ Raised(fit)
       /\ fit.best_course # ""

\* C9: when several candidates share the largest minScore, the one first in
\* catalog iteration order (university order, then course order) is returned
\* (stated for the catalogs in which every course carries a min_score and no
\* university repeats a course name).
C9_FirstEncounteredWins ==
    (pc = "done" /\ WellFormed(universities)
        /\ Candidates(universities, total_score) # {}
        /\ Cardinality(Tightest(universities, total_score)) >= 2)
    => /\ ~ Raised(fit)
       /\ fit.best_uni = FirstTightest(universities, total_score).uni_name
       /\ fit.best_course = FirstTightest(universities, total_score).course.name

\* With course names distinct over the whole catalog the name lookup finds the
\* running best itself, and both selection properties hold.
DistinctCourseNames(unis) ==
    \A i, j \in DOMAIN CatalogOrder(unis) :
        CatalogOrder(unis)[i].course.name = CatalogOrder(unis)[j].course.name
            => i = j

SelectionWithDistinctNames ==
    (pc = "done" /\ DistinctCourseNames(universities)
        /\ EveryCourseHasMin(universities)
        /\ Candidates(universities, total_score) # {})
    => /\ ~ Raised(fit)
       /\ fit.reasoning = Reasoning(total_score,
                                    MaxCandidateMin(universities, total_score))
       /\ fit.best_uni = FirstTightest(universities, total_score).uni_name
       /\ fit.best_course = FirstTightest(universities, total_score).course.name

----------------------------------------------------------------------------
(* SpecScore: the score of every roster row. *)

SubjectNames == <<"Math", "Eng", "Sci", "Art">>

StudentIds == {IntVal(1), StrVal("1"), StrVal("S2")}

\* Cells of a subject column: the six grades and values that are none.
GradeCells ==
    {StrVal(g) : g \in {"A", "B", "C", "D", "E", "F", "a", "nan", ""}}
    \cup {IntVal(5)}

RowOf(id, student_name, cells) ==
    [c \in {"Student ID", "Name"} \cup {SubjectNames[k] : k \in DOMAIN cells} |->
        CASE c = "Student ID" -> id
          [] c = "Name" -> student_name
          [] OTHER -> cells[CHOOSE k \in DOMAIN cells : SubjectNames[k] = c]]

ScoreRows ==
    {RowOf(id, nm, cells) :
        id \in StudentIds, nm \in {StrVal("Ann"), StrVal("A")},
        cells \in SeqsUpTo(GradeCells, MaxSubjects)}

InitScore ==
    /\ student_row \in ScoreRows
    /\ total_score = 0
    /\ universities = << >>
    /\ overrides = EmptyDict
    /\ fit = [pending |-> TRUE]
    /\ pc = "input"
    /\ IdleAllocate
    /\ IdleApi

\* Line 48 on the row iterrows yields, which carries the result columns.
ComputeScore ==
    /\ pc = "input"
    /\ total_score' = TotalScore(WithResultColumns(student_row))
    /\ pc' = "done"
    /\ UNCHANGED <<universities, overrides, student_row, fit, roster, df, idx,
                   runs, uploads, student_pdfs, full_pdf, request, response>>

NextScore == ComputeScore

SpecScore == InitScore /\ [][NextScore]_vars

\* The grade points of a cell as the specification lists them.
GradePoints(cell) ==
    CASE cell = StrVal("A") -> 5 [] cell = StrVal("B") -> 4
      [] cell = StrVal("C") -> 3 [] cell = StrVal("D") -> 2
      [] cell = StrVal("E") -> 1 [] OTHER -> 0

SubjectColumns(row) == DOMAIN row \ {"Student ID", "Name"}

\* C4: the score allocate computes for a row is the sum of the grade points
\* (A=5, B=4, C=3, D=2, E=1, F=0, anything else 0) of its columns other than
\* "Student ID" and "Name"; it is never negative, and the result columns
\* allocate adds to the row contribute nothing.
C4_ScoreIsSumOfGradePoints ==
    pc = "done"
    => /\ total_score
            = SumOver(SubjectColumns(student_row),
                      [c \in SubjectColumns(student_row) |->
                          GradePoints(student_row[c])])
       /\ total_score >= 0

\* C4 witness: a student named "A" with grade A, an unknown token, and the
\* score 5 computed.
C4_Witness ==
    /\ pc = "done"
    /\ student_row["Name"] = StrVal("A")
    /\ Cardinality(SubjectColumns(student_row)) = 2
    /\ student_row["Math"] = StrVal("A")
    /\ student_row["Eng"] = StrVal("nan")
    /\ total_score = 5

----------------------------------------------------------------------------
(* SpecAllocate: allocate, row by row, run repeatedly on the same roster,   *)
(* catalog and override table.                                             *)

\* Catalog documents: none, tiered, tied, a name shared by two universities,
\* and a course without min_score followed by another course.
SampleCatalogs ==
    { << >>,
      <<University("UniA", <<Course("X", 1)>>),
        University("UniB", <<Course("Y", 2)>>)>>,
      <<University("UniA", <<Course("X", 1)>>),
        University("UniB", <<Course("Y", 1)>>)>>,
      <<University("UniA", <<Course("X", 0)>>),
        University("UniB", <<Course("X", 2), Course("Y", 1)>>)>>,
      <<University("UniA", <<[name |-> "X"], Course("Y", 1)>>)>>,
      <<University("UniA", << >>),
        University("UniB", <<Course("Y", 2)>>)>> }

\* Rows with one subject column; the grades F, E, D score 0, 1, 2.
AllocRows ==
    {RowOf(id, StrVal("Ann"), <<StrVal(g)>>) :
        id \in StudentIds, g \in {"F", "E", "D"}}

Rosters == SeqsUpTo(AllocRows, MaxRows)

Override(uni, course) == [university |-> uni, course |-> course]

OverrideTables ==
    { EmptyDict,
      [k \in {"1"} |-> Override("UniC", "CourseZ")],
      [k \in {"S2"} |-> Override("UniA", "X")],
      [k \in {"1", "S2"} |->
          IF k = "1" THEN Override("UniC", "CourseZ") ELSE Override("UniA", "X")] }

InitAllocate ==
    /\ roster \in Rosters
    /\ universities \in SampleCatalogs
    /\ overrides \in OverrideTables
    /\ df = << >>
    /\ idx = 0
    /\ runs = << >>
    /\ student_row = EmptyDict
    /\ total_score = 0
    /\ fit = [pending |-> TRUE]
    /\ pc = "idle"
    /\ IdleApi

\* Lines 29-35: the files are read and the result columns added.
AllocateStart ==
    /\ pc = "idle"
    /\ Len(runs) < MaxRuns
    /\ df' = WithResultFrame(roster)
    /\ idx' = 1
    /\ pc' = "loop"
    /\ UNCHANGED <<universities, overrides, student_row, total_score, fit,
                   roster, runs, uploads, student_pdfs, full_pdf, request,
                   response>>

\* AllocateRow with "break" for "continue": an overridden row ends the loop.
AllocateRow_break ==
    /\ pc = "loop"
    /\ idx <= Len(df)
    /\ LET out == AllocateRowBody(df[idx], universities, overrides)
       IN  IF Raised(out)
           THEN /\ runs' = Append(runs, out)
                /\ df' = << >>
                /\ idx' = 0
                /\ pc' = "idle"
           ELSE /\ df' = [df EXCEPT ![idx] = out]
                /\ idx' = IF PyStr(df[idx]["Student ID"]) \in DOMAIN overrides
                          THEN Len(df) + 1 ELSE idx + 1
                /\ UNCHANGED <<runs, pc>>
    /\ UNCHANGED <<universities, overrides, student_row, total_score, fit,
                   roster, uploads, student_pdfs, full_pdf, request, response>>

\* AllocateRow with the override entry consumed when it is applied.
AllocateRow_pop ==
    /\ pc = "loop"
    /\ idx <= Len(df)
    /\ LET out == AllocateRowBody(df[idx], universities, overrides)
           student_id == PyStr(df[idx]["Student ID"])
       IN  /\ IF Raised(out)
              THEN /\ runs' = Append(runs, out)
                   /\ df' = << >>
                   /\ idx' = 0
                   /\ pc' = "idle"
              ELSE /\ df' = [df EXCEPT ![idx] = out]
                   /\ idx' = idx + 1
                   /\ UNCHANGED <<runs, pc>>
           /\ overrides' = [k \in DOMAIN overrides \ {student_id} |-> overrides[k]]
    /\ UNCHANGED <<universities, student_row, total_score, fit, roster,
                   uploads, student_pdfs, full_pdf, request, response>>

\* Lines 37-54: one iteration of the row loop; an exception ends the run.
AllocateRow ==
    /\ pc = "loop"
    /\ idx <= Len(df)
    /\ LET out == AllocateRowBody(df[idx], universities, overrides)
       IN  IF Raised(out)
           THEN /\ runs' = Append(runs, out)
                /\ df' = << >>
                /\ idx' = 0
                /\ pc' = "idle"
           ELSE /\ df' = [df EXCEPT ![idx] = out]
                /\ idx' = idx + 1
                /\ UNCHANGED <<runs, pc>>
    /\ UNCHANGED <<universities, overrides, student_row, total_score, fit,
                   roster, uploads, student_pdfs, full_pdf, request, response>>

\* Line 56: the frame is returned.
AllocateReturn ==
    /\ pc = "loop"
    /\ idx > Len(df)
    /\ runs' = Append(runs, [frame |-> df])
    /\ df' = << >>
    /\ idx' = 0
    /\ pc' = "idle"
    /\ UNCHANGED <<universities, overrides, student_row, total_score, fit,
                   roster, uploads, student_pdfs, full_pdf, request, response>>

NextAllocate == AllocateStart \/ AllocateRow \/ AllocateReturn

SpecAllocate == InitAllocate /\ [][NextAllocate]_vars

----------------------------------------------------------------------------
(* api.py: the endpoints.  A request is handled in one step (the handlers   *)
(* do not await).                                                          *)

\* f"<td>{row['Student ID']}</td>...": the five cells of a row as the
\* f-strings of generate_allocations_table and generate_full_pdf format them.
TableRow(row) ==
    <<PyStr(row["Student ID"]), PyStr(row["Name"]),
      PyStr(row["Allocated University"]), PyStr(row["Allocated Course"]),
      PyStr(row["Reasoning"])>>

\* generate_allocations_table(df_alloc): one table row per frame row, in order.
generate_allocations_table(frame) == [i \in DOMAIN frame |-> TableRow(frame[i])]

\* generate_full_pdf(df_alloc, pdf_path): the document written to pdf_path.
generate_full_pdf(frame) == [i \in DOMAIN frame |-> TableRow(frame[i])]

\* generate_reports(df_alloc, REPORT_DIR, PDF_DIR): PDF_DIR after a report
\* was written for every row in order, each to <student_id>.pdf.
RECURSIVE generate_reports(_, _, _)
generate_reports(frame, i, pdfs) ==
    IF i > Len(frame) THEN pdfs
    ELSE generate_reports(frame, i + 1,
            DictSet(pdfs, PyStr(frame[i]["Student ID"]),
                    [c \in DOMAIN frame[i] |-> PyStr(frame[i][c])]))

File(stem, ext) == [stem |-> stem, ext |-> ext]

\* UPLOAD_DIR after "open(excel_path, 'wb')" and the copy: a file of that
\* name is replaced, and the file written is the one changed last (the ctime
\* of a rewritten file is the time of the rewrite on POSIX systems).
SaveUpload(files, filename, frame) ==
    SelectSeq(files, LAMBDA f : f.filename # filename)
        \o <<[filename |-> filename, frame |-> frame]>>

\* UPLOAD_DIR.glob("*.xlsx"), in order of ctime.
GlobXlsx(files) == SelectSeq(files, LAMBDA f : f.filename.ext = "xlsx")

\* max(UPLOAD_DIR.glob("*.xlsx"), key=os.path.getctime); raises ValueError
\* when there is none.
LatestFile(files) ==
    IF GlobXlsx(files) = << >> THEN [raised |-> "ValueError"]
    ELSE GlobXlsx(files)[Len(GlobXlsx(files))]

ServerError(exc) == [status |-> 500, error |-> exc.raised]
HtmlResponse(body) == [status |-> 200, html |-> body]
FileResponse(content) == [status |-> 200, file |-> content]

\* overrides[student_id] = {...} with every other entry dropped.
SaveOverride_only(ovr, student_id, university, course) ==
    [k \in {student_id} |-> [university |-> university, course |-> course]]

\* overrides[student_id] = {"university": university, "course": course}
SaveOverride(ovr, student_id, university, course) ==
    DictSet(ovr, student_id, [university |-> university, course |-> course])

RosterOne ==
    <<RowOf(IntVal(1), StrVal("Ann"), <<StrVal("D")>>),
      RowOf(StrVal("S2"), StrVal("Bo"), <<StrVal("F")>>)>>

RosterTwo == <<RowOf(StrVal("S2"), StrVal("Bo"), <<StrVal("E")>>)>>

\* The multipart uploads the model sends: file name and the frame
\* pd.read_excel reads from it.  a.xlsx is uploaded with either content.
UploadForms ==
    { [filename |-> File("a", "xlsx"), frame |-> RosterOne],
      [filename |-> File("a", "xlsx"), frame |-> RosterTwo],
      [filename |-> File("b", "xlsx"), frame |-> RosterTwo],
      [filename |-> File("c", "xls"), frame |-> RosterOne] }

\* The catalog documents the server of the model runs with: tiered, and one
\* with a course without min_score.
ApiCatalogs ==
    { <<University("UniA", <<Course("X", 1)>>),
        University("UniB", <<Course("Y", 2)>>)>>,
      <<University("UniA", <<[name |-> "X"], Course("Y", 1)>>)>> }

FormStudentIds == {"1", "S2"}
FormPairs == {<<"UniC", "CourseZ">>, <<"UniA", "X">>}

Init ==
    /\ universities \in ApiCatalogs
    /\ overrides = EmptyDict
    /\ uploads = << >>
    /\ student_pdfs = EmptyDict
    /\ full_pdf = NoFile
    /\ request = NoRequest
    /\ response = NoResponse
    /\ student_row = EmptyDict
    /\ total_score = 0
    /\ fit = [pending |-> TRUE]
    /\ pc = "serving"
    /\ IdleAllocate

\* The allocation run both POST handlers end with, on `file`'s frame under
\* the table `ovr`: the reports are written and the table returned, unless
\* allocate raises.
RunAndReport(frame, ovr) ==
    LET out == allocate(frame, universities, ovr)
    IN  IF Raised(out)
        THEN /\ response' = ServerError(out)
             /\ UNCHANGED student_pdfs
        ELSE /\ student_pdfs' = generate_reports(out.frame, 1, student_pdfs)
             /\ response' = HtmlResponse(generate_allocations_table(out.frame))

\* POST /allocate
PostAllocate ==
    \E file \in UploadForms :
        /\ request' = [op |-> "allocate", filename |-> file.filename]
        /\ uploads' = SaveUpload(uploads, file.filename, file.frame)
        /\ RunAndReport(file.frame, overrides)
        /\ UNCHANGED <<universities, overrides, full_pdf, student_row,
                       total_score, fit, roster, df, idx, runs, pc>>

\* POST /override
PostOverride ==
    \E student_id \in FormStudentIds, pair \in FormPairs :
        /\ request' = [op |-> "override", student_id |-> student_id,
                       university |-> pair[1], course |-> pair[2]]
        /\ overrides' = SaveOverride(overrides, student_id, pair[1], pair[2])
        /\ IF Raised(LatestFile(uploads))
           THEN /\ response' = ServerError(LatestFile(uploads))
                /\ UNCHANGED student_pdfs
           ELSE RunAndReport(LatestFile(uploads).frame, overrides')
        /\ UNCHANGED <<universities, uploads, full_pdf, student_row,
                       total_score, fit, roster, df, idx, runs, pc>>

\* GET /download_pdf/{student_id}
DownloadStudentPdf ==
    \E student_id \in FormStudentIds :
        /\ request' = [op |-> "download_pdf", student_id |-> student_id]
        /\ response' = IF student_id \in DOMAIN student_pdfs
                       THEN FileResponse(student_pdfs[student_id])
                       ELSE HtmlResponse("PDF not found")
        /\ UNCHANGED <<universities, overrides, uploads, student_pdfs,
                       full_pdf, student_row, total_score, fit, roster, df,
                       idx, runs, pc>>

\* GET /download_full_pdf
DownloadFullPdf ==
    /\ request' = [op |-> "download_full_pdf"]
    /\ IF full_pdf # NoFile
       THEN /\ response' = FileResponse(full_pdf)
            /\ UNCHANGED full_pdf
       ELSE IF Raised(LatestFile(uploads))
       THEN /\ response' = ServerError(LatestFile(uploads))
            /\ UNCHANGED full_pdf
       ELSE LET out == allocate(LatestFile(uploads).frame, universities,
                                overrides)
            IN  IF Raised(out)
                THEN /\ response' = ServerError(out)
                     /\ UNCHANGED full_pdf
                ELSE /\ full_pdf' = [rows |-> generate_full_pdf(out.frame)]
                     /\ response' = FileResponse(full_pdf')
    /\ UNCHANGED <<universities, overrides, uploads, student_pdfs,
                   student_row, total_score, fit, roster, df, idx, runs, pc>>

Next == PostAllocate \/ PostOverride \/ DownloadStudentPdf \/ DownloadFullPdf

Spec == Init /\ [][Next]_vars

----------------------------------------------------------------------------
(* Claims about allocate, checked under SpecAllocate. *)

Overridden(row, ovr) == PyStr(row["Student ID"]) \in DOMAIN ovr

\* The result cells of a row are the override's pair and its reasoning.
HoldsOverride(row, ovr) ==
    /\ row["Allocated University"]
         = StrVal(ovr[PyStr(row["Student ID"])].university)
    /\ row["Allocated Course"] = StrVal(ovr[PyStr(row["Student ID"])].course)
    /\ row["Reasoning"] = StrVal("Manual override applied")

Returned(run) == "frame" \in DOMAIN run

\* C1: for every student whose identifier, as a string, is a key of the
\* override table, the row allocate fills in and returns holds exactly the
\* override's (university, course) pair with reasoning "Manual override
\* applied", whatever the grades and the catalog.
C1_OverrideApplied ==
    /\ pc = "loop" =>
         \A i \in 1..(idx - 1) :
             Overridden(roster[i], overrides) => HoldsOverride(df[i], overrides)
    /\ \A r \in DOMAIN runs :
         Returned(runs[r]) =>
             \A i \in DOMAIN roster :
                 Overridden(roster[i], overrides)
                     => HoldsOverride(runs[r].frame[i], overrides)

\* C1 witness: student 1 (an int in the roster) has grade D, score 2, which
\* qualifies for UniB/Y in the tiered catalog, and is returned with the
\* override UniC/CourseZ.
C1_Witness ==
    /\ Len(runs) >= 1 /\ Returned(runs[1])
    /\ Len(roster) = 2
    /\ roster[2]["Student ID"] = IntVal(1)
    /\ roster[2]["Math"] = StrVal("D")
    /\ ~ Overridden(roster[1], overrides)
    /\ universities = <<University("UniA", <<Course("X", 1)>>),
                        University("UniB", <<Course("Y", 2)>>)>>
    /\ runs[1].frame[2]["Allocated University"] = StrVal("UniC")
    /\ runs[1].frame[2]["Allocated Course"] = StrVal("CourseZ")
    /\ runs[1].frame[2]["Reasoning"] = StrVal("Manual override applied")

C7_Idempotent ==
    /\ [](\A r, q \in DOMAIN runs : runs[r] = runs[q])
    /\ [][/\ universities' = universities
          /\ overrides' = overrides
          /\ roster' = roster]_vars

\* C7 witness: two runs on the tied catalog, with an overridden student and
\* one placed in the first of the tied courses both times.
C7_Witness ==
    /\ Len(runs) = 2 /\ Returned(runs[2])
    /\ universities = <<University("UniA", <<Course("X", 1)>>),
                        University("UniB", <<Course("Y", 1)>>)>>
    /\ Len(roster) = 2
    /\ Overridden(roster[1], overrides)
    /\ ~ Overridden(roster[2], overrides)
    /\ runs[1].frame[2]["Allocated Course"] = StrVal("X")
    /\ runs[2].frame[2]["Allocated Course"] = StrVal("X")
    /\ runs[2].frame[2]["Reasoning"] = StrVal("Total score 2 meets minimum 1")

----------------------------------------------------------------------------
(* Claims about the endpoints, checked under Spec. *)

\* The last request ran an allocation and returned its table.
ReturnedTable ==
    /\ request.op \in {"allocate", "override"}
    /\ response.status = 200

\* Row `r` of a returned table shows the override of its student.
ShowsOverride(r) ==
    /\ r[3] = overrides[r[1]].university
    /\ r[4] = overrides[r[1]].course
    /\ r[5] = "Manual override applied"

\* C8: over any sequence of requests the identifiers in the override table
\* never shrink: /override adds or replaces the entry of exactly the given
\* identifier with the given pair and leaves every other entry alone,
\* /allocate and the downloads leave the table unchanged, and every table an
\* allocation run returns shows, for each student with an entry, that entry.
C8_OverridesOnlyGrow ==
    /\ [][/\ DOMAIN overrides \subseteq DOMAIN overrides'
          /\ request'.op = "override" =>
               /\ DOMAIN overrides'
                    = DOMAIN overrides \cup {request'.student_id}
               /\ overrides'[request'.student_id]
                    = [university |-> request'.university,
                       course |-> request'.course]
               /\ \A k \in DOMAIN overrides \ {request'.student_id} :
                      overrides'[k] = overrides[k]
          /\ request'.op # "override" => overrides' = overrides]_vars
    /\ [](ReturnedTable =>
            \A i \in DOMAIN response.html :
                response.html[i][1] \in DOMAIN overrides
                    => ShowsOverride(response.html[i]))

\* C8 witness: both students have an entry, a roster was uploaded under
\* another name afterwards, and the table of that run shows both overrides.
C8_Witness ==
    /\ DOMAIN overrides = {"1", "S2"}
    /\ overrides["1"] # overrides["S2"]
    /\ request.op = "allocate"
    /\ Len(uploads) >= 2
    /\ response.status = 200
    /\ Len(response.html) = 2
    /\ ShowsOverride(response.html[1])
    /\ ShowsOverride(response.html[2])

\* C10: the document /download_full_pdf serves shows the allocation of the
\* most recently uploaded roster under the current override table (stated
\* for the states in which that roster is an .xlsx file and its allocation
\* does not raise).
C10_FullPdfIsCurrent ==
    (/\ request.op = "download_full_pdf"
     /\ response.status = 200
     /\ uploads[Len(uploads)].filename.ext = "xlsx"
     /\ Returned(allocate(uploads[Len(uploads)].frame, universities, overrides)))
    => response.file.rows
         = generate_full_pdf(
               allocate(uploads[Len(uploads)].frame, universities,
                        overrides).frame)

====
